---------------------------- MODULE Spec2Model ----------------------------
(***************************************************************************)
(* State-machine model of the correct string-to-float algorithm of         *)
(* src/src/atof/algorithm/correct.rs: parse_mantissa, normalize_exponent,  *)
(* normalize_mantissa, parse_float, pow2_to_exact, to_exact, the extended  *)
(* precision path and the dispatcher to_native.                            *)
(*                                                                         *)
(* TLC's integers are 32 bits wide, so a u64 (and every wider intermediate *)
(* value) is an exact natural number held as a little-endian sequence of   *)
(* 8-bit limbs without leading zero limbs; i32 arithmetic is done on TLC   *)
(* integers with the overflow case computed explicitly.                    *)
(***************************************************************************)
EXTENDS Integers, Sequences, FiniteSets, TLC

(***************************************************************************)
(* Exact natural numbers (limb sequences).                                 *)
(***************************************************************************)
LIMB == 2^8

RECURSIVE BTrim(_)
BTrim(s) ==
    IF s = <<>> THEN s
    ELSE IF s[Len(s)] = 0 THEN BTrim(SubSeq(s, 1, Len(s) - 1)) ELSE s

RECURSIVE BFromInt(_)
BFromInt(n) == IF n = 0 THEN <<>> ELSE <<n % LIMB>> \o BFromInt(n \div LIMB)

RECURSIVE BToIntRec(_,_)
BToIntRec(s, i) == IF i > Len(s) THEN 0 ELSE s[i] + LIMB * BToIntRec(s, i + 1)

\* Only for values known to be below 2^31.
BToInt(s) == BToIntRec(s, 1)

\* s * k + c, for 0 <= k, c < 2^22: the limbs lo .. hi and the carry out,
\* the low half first.
RECURSIVE BMulAddRec(_,_,_,_,_)
BMulAddRec(s, k, c, lo, hi) ==
    IF lo > hi THEN [d |-> <<>>, c |-> c]
    ELSE IF lo = hi
    THEN [d |-> <<(s[lo] * k + c) % LIMB>>, c |-> (s[lo] * k + c) \div LIMB]
    ELSE LET low == BMulAddRec(s, k, c, lo, (lo + hi) \div 2)
         IN  IF low.c = 0
             THEN LET high == BMulAddRec(s, k, 0, ((lo + hi) \div 2) + 1, hi)
                  IN  [d |-> low.d \o high.d, c |-> high.c]
             ELSE LET high == BMulAddRec(s, k, low.c, ((lo + hi) \div 2) + 1, hi)
                  IN  [d |-> low.d \o high.d, c |-> high.c]

BMulAdd(s, k, c) ==
    IF s = <<>> THEN BFromInt(c)
    ELSE LET x == BMulAddRec(s, k, c, 1, Len(s)) IN BTrim(x.d \o BFromInt(x.c))

\* Quotient and remainder of s by a small divisor 0 < d < 2^22: the limbs
\* lo .. hi with the remainder carried in, the high half first.
RECURSIVE BDivRec(_,_,_,_,_)
BDivRec(s, d, lo, hi, rem) ==
    IF lo > hi THEN [q |-> <<>>, r |-> rem]
    ELSE IF lo = hi
    THEN [q |-> <<(rem * LIMB + s[lo]) \div d>>, r |-> (rem * LIMB + s[lo]) % d]
    ELSE LET high == BDivRec(s, d, ((lo + hi) \div 2) + 1, hi, rem)
         IN  IF high.r = 0
             THEN LET low == BDivRec(s, d, lo, (lo + hi) \div 2, 0)
                  IN  [q |-> low.q \o high.q, r |-> low.r]
             ELSE LET low == BDivRec(s, d, lo, (lo + hi) \div 2, high.r)
                  IN  [q |-> low.q \o high.q, r |-> low.r]

BDivMod(s, d) ==
    IF s = <<>> THEN [q |-> <<>>, r |-> 0]
    ELSE LET x == BDivRec(s, d, 1, Len(s), 0) IN [q |-> BTrim(x.q), r |-> x.r]

RECURSIVE BAddRec(_,_,_)
BAddRec(a, b, c) ==
    IF a = <<>> /\ b = <<>> THEN (IF c = 0 THEN <<>> ELSE <<c>>)
    ELSE LET x == IF a = <<>> THEN 0 ELSE a[1]
             y == IF b = <<>> THEN 0 ELSE b[1]
             t == x + y + c
         IN  <<t % LIMB>> \o BAddRec(IF a = <<>> THEN a ELSE Tail(a),
                                     IF b = <<>> THEN b ELSE Tail(b),
                                     t \div LIMB)

BAdd(a, b) == BTrim(BAddRec(a, b, 0))

\* -1, 0, 1 as a < b, a = b, a > b (canonical operands).
RECURSIVE BCmpRec(_,_,_)
BCmpRec(a, b, i) ==
    IF i = 0 THEN 0
    ELSE IF a[i] < b[i] THEN -1
    ELSE IF a[i] > b[i] THEN 1
    ELSE BCmpRec(a, b, i - 1)

BCmp(a, b) ==
    IF Len(a) < Len(b) THEN -1
    ELSE IF Len(a) > Len(b) THEN 1
    ELSE BCmpRec(a, b, Len(a))

BLt(a, b) == BCmp(a, b) < 0
BLe(a, b) == BCmp(a, b) <= 0

\* a - b for a >= b.
RECURSIVE BSubRec(_,_,_)
BSubRec(a, b, br) ==
    IF a = <<>> THEN <<>>
    ELSE LET y == (IF b = <<>> THEN 0 ELSE b[1]) + br
             t == a[1] - y
         IN  <<(t + LIMB) % LIMB>>
                 \o BSubRec(Tail(a), IF b = <<>> THEN b ELSE Tail(b),
                            IF t < 0 THEN 1 ELSE 0)

BSub(a, b) == BTrim(BSubRec(a, b, 0))

RECURSIVE BMul(_,_)
BMul(a, b) ==
    IF a = <<>> \/ b = <<>> THEN <<>>
    ELSE BAdd(BMulAdd(a, b[1], 0), BTrim(<<0>> \o BMul(a, Tail(b))))

RECURSIVE BitLenSmall(_)
BitLenSmall(n) == IF n = 0 THEN 0 ELSE 1 + BitLenSmall(n \div 2)

BBitLen(s) == IF s = <<>> THEN 0 ELSE 8 * (Len(s) - 1) + BitLenSmall(s[Len(s)])

Zeros(n) == [i \in 1 .. n |-> 0]

\* s * 2^k
BShl(s, k) == IF s = <<>> THEN s ELSE Zeros(k \div 8) \o BMulAdd(s, 2^(k % 8), 0)

\* floor(s / 2^k)
BShr(s, k) ==
    IF k \div 8 >= Len(s) THEN <<>>
    ELSE BDivMod(SubSeq(s, (k \div 8) + 1, Len(s)), 2^(k % 8)).q

\* s mod 2^k
BLow(s, k) ==
    IF k \div 8 >= Len(s) THEN s
    ELSE BTrim(SubSeq(s, 1, k \div 8) \o <<s[(k \div 8) + 1] % (2^(k % 8))>>)

BPow2(k) == BShl(<<1>>, k)

BIsOdd(s) == s # <<>> /\ s[1] % 2 = 1

\* s * b^n for a small b.
RECURSIVE BMulPow(_,_,_)
BMulPow(s, b, n) ==
    IF n = 0 THEN s
    ELSE IF n = 1 THEN BMulAdd(s, b, 0)
    ELSE LET h == BMulPow(s, b, n \div 2)
         IN  IF h = <<>> THEN h ELSE BMulPow(h, b, n - (n \div 2))

\* The number of trailing zero bits of s # 0.
RECURSIVE BTrailingZeros(_)
BTrailingZeros(s) == IF BIsOdd(s) THEN 0 ELSE 1 + BTrailingZeros(BShr(s, 1))

(***************************************************************************)
(* Signed 32-bit arithmetic.  Rust panics on overflow when overflow checks *)
(* are compiled in (debug) and wraps otherwise (release): every operation  *)
(* gives the wrapped value and whether it overflowed.                      *)
(***************************************************************************)
I32_MAX == 2147483647
I32_MIN == -I32_MAX - 1

AddOverflows(a, b) == IF b >= 0 THEN a > I32_MAX - b ELSE a < I32_MIN - b

WrappingAdd(a, b) ==
    IF ~AddOverflows(a, b) THEN a + b
    ELSE IF b >= 0 THEN (((a - I32_MAX) - 1) + b) + I32_MIN
    ELSE (((a - I32_MIN) + b) + I32_MAX) + 1

SubOverflows(a, b) == IF b >= 0 THEN a < I32_MIN + b ELSE a > I32_MAX + b

WrappingSub(a, b) ==
    IF ~SubOverflows(a, b) THEN a - b
    ELSE IF b >= 0 THEN (((a - I32_MIN) - b) + I32_MAX) + 1
    ELSE (((a - I32_MAX) - 1) - b) + I32_MIN

(***************************************************************************)
(* The target float types (float.rs, not among the sources): f32 and f64   *)
(* as IEEE-754 binary32 / binary64.  A float is zero, infinity, or the     *)
(* finite value m * 2^e with m odd, so that equal values are equal records. *)
(***************************************************************************)
FloatTypes == {"f32", "f64"}

SIGNIFICAND_SIZE(F) == IF F = "f32" THEN 23 ELSE 52

EXPONENT_BIAS(F) == IF F = "f32" THEN 127 + 23 ELSE 1023 + 52

\* The exponent of the smallest subnormal, and of the largest binade.
DENORMAL_EXPONENT(F) == 1 - EXPONENT_BIAS(F)
MAX_BINADE(F) == IF F = "f32" THEN 127 ELSE 1023

ZERO == [k |-> "zero"]
INFINITY == [k |-> "inf"]
Finite(m, e) == [k |-> "fin", m |-> m, e |-> e]

\* r * 2^q as a float of type F (r fits the significand at quantum q).
Canon(F, r, q) ==
    IF r = <<>> THEN ZERO
    ELSE LET tz == BTrailingZeros(r)
             m  == BShr(r, tz)
         IN  IF q + tz + BBitLen(m) - 1 > MAX_BINADE(F) THEN INFINITY
             ELSE Finite(m, q + tz)

\* Round-to-nearest, ties-to-even, of the real number (sig + d) * 2^exp,
\* sig > 0, where 0 < d < 1 if sticky and d = 0 otherwise.
RoundNearestEven(F, sig, exp, sticky) ==
    LET P    == SIGNIFICAND_SIZE(F) + 1
        top  == exp + BBitLen(sig) - 1
        q0   == top - (P - 1)
        q    == IF q0 < DENORMAL_EXPONENT(F) THEN DENORMAL_EXPONENT(F) ELSE q0
        up   == IF exp > q - 2 THEN exp - (q - 2) ELSE 0
        s2   == BShl(sig, up)
        sh   == q - (exp - up)
        kept == BShr(s2, sh)
        c    == BCmp(BLow(s2, sh), BPow2(sh - 1))
        roundUp == c > 0 \/ (c = 0 /\ (sticky \/ BIsOdd(kept)))
    IN  IF top > MAX_BINADE(F) + 1 THEN INFINITY
        ELSE IF top < DENORMAL_EXPONENT(F) - 2 THEN ZERO
        ELSE Canon(F, IF roundUp THEN BAdd(kept, <<1>>) ELSE kept, q)

\* `as_(mantissa)`: the u64 -> float cast, which rounds to nearest even.
AsFloat(F, mantissa) ==
    IF mantissa = <<>> THEN ZERO ELSE RoundNearestEven(F, mantissa, 0, FALSE)

\* The IEEE product of two floats.
FMul(F, x, y) ==
    IF x.k = "zero" \/ y.k = "zero" THEN ZERO
    ELSE IF x.k = "inf" \/ y.k = "inf" THEN INFINITY
    ELSE RoundNearestEven(F, BMul(x.m, y.m), x.e + y.e, FALSE)

\* floor(s / b^n) and whether anything was cut off.
RECURSIVE BDivPow(_,_,_,_)
BDivPow(s, b, n, sticky) ==
    IF n = 0 THEN [q |-> s, sticky |-> sticky]
    ELSE IF n = 1
    THEN LET d == BDivMod(s, b) IN [q |-> d.q, sticky |-> sticky \/ d.r # 0]
    ELSE LET h == BDivPow(s, b, n \div 2, sticky)
         IN  IF h.q = <<>> THEN h ELSE BDivPow(h.q, b, n - (n \div 2), h.sticky)

\* The correctly rounded quotient of the float x by the integer b^n.
FDivPow(F, x, b, n) ==
    IF x.k # "fin" THEN x
    ELSE LET s == n * BitLenSmall(b) + SIGNIFICAND_SIZE(F) + 4
             d == BDivPow(BShl(x.m, s), b, n, FALSE)
         IN  RoundNearestEven(F, d.q, x.e - s, d.sticky)

\* StablePower::pow2: the float times 2^k, 2^k itself being a float.
pow2(F, x, k) == FMul(F, x, RoundNearestEven(F, <<1>>, k, FALSE))

\* StablePower::pow: the float times base^exponent, one exact multiplication
\* or division by the integer power.
pow(F, x, base, exponent) ==
    IF exponent >= 0
    THEN FMul(F, x, RoundNearestEven(F, BMulPow(<<1>>, base, exponent), 0, FALSE))
    ELSE FDivPow(F, x, base, -exponent)

(***************************************************************************)
(* The digit buffer.  buf is the byte sequence [first, last): position p   *)
(* is an index, first = 1, last = Len(buf) + 1, and *p is buf[p] for       *)
(* first <= p < last.  util.rs and atoi.rs are not among the sources.      *)
(***************************************************************************)
CH_0 == 48
CH_DOT == 46
CH_PLUS == 43
CH_MINUS == 45

first == 1
Last(buf) == Len(buf) + 1
distance(a, b) == b - a

\* char_to_digit: the digit value of a byte, 0xFF for a byte that is none.
char_to_digit(c) ==
    IF c >= 48 /\ c <= 57 THEN c - 48
    ELSE IF c >= 65 /\ c <= 90 THEN c - 55
    ELSE IF c >= 97 /\ c <= 122 THEN c - 87
    ELSE 255

\* ltrim_char: the first position in [p, last) that does not hold c.
RECURSIVE ltrim_char(_,_,_,_)
ltrim_char(buf, p, last, c) ==
    IF p < last /\ buf[p] = c THEN ltrim_char(buf, p + 1, last, c) ELSE p

\* The positions a scan from p that stopped at q dereferenced.
ScanReads(p, q, last) == p .. (IF q < last THEN q ELSE last - 1)

U64_BITS == 64

\* atoi::checked: fold the digits at [p, last) into value with a checked
\* multiply-add; from the first overflow on, value is left alone and the
\* digits are only counted.  Gives the position after the digits.
RECURSIVE atoi_checked(_,_,_,_,_,_)
atoi_checked(buf, value, base, p, last, truncated) ==
    IF p < last /\ char_to_digit(buf[p]) < base
    THEN IF truncated > 0
         THEN atoi_checked(buf, value, base, p + 1, last, truncated + 1)
         ELSE LET v == BMulAdd(value, base, char_to_digit(buf[p]))
              IN  IF BBitLen(v) > U64_BITS
                  THEN atoi_checked(buf, value, base, p + 1, last, 1)
                  ELSE atoi_checked(buf, v, base, p + 1, last, 0)
    ELSE [value |-> value, p |-> p, truncated |-> truncated]

(***************************************************************************)
(* PARSE                                                                   *)
(***************************************************************************)
usize_to_i32(truncated) == IF truncated < I32_MAX THEN truncated ELSE I32_MAX

\* `distance(f, last) > 1 && *f == b'.'`: && does not evaluate *f when the
\* distance test fails.
has_fraction_mutant(buf, f, last) ==
    [reads |-> {f}, has |-> f < last /\ buf[f] = CH_DOT]

has_fraction(buf, f, last) ==
    IF distance(f, last) > 1
    THEN [reads |-> {f}, has |-> buf[f] = CH_DOT]
    ELSE [reads |-> {}, has |-> FALSE]

\* The dot shift of the branch that folds the fraction in: f is the position
\* after the dot (the inner `let f` of the `0 =>` arm is out of scope here).
fraction_dot_shift_mutant(f, trimmed, p, truncated) ==
    usize_to_i32(distance(trimmed, p)) - usize_to_i32(truncated)

fraction_dot_shift(f, trimmed, p, truncated) ==
    usize_to_i32(distance(f, p)) - usize_to_i32(truncated)

\* The loop `while p < last && (char_to_digit(*p) as u32) < base`.
RECURSIVE skip_digits(_,_,_,_)
skip_digits(buf, base, p, last) ==
    IF p < last /\ char_to_digit(buf[p]) < base
    THEN skip_digits(buf, base, p + 1, last)
    ELSE p

parse_mantissa(base, buf) ==
    LET last == Last(buf)
        f0   == ltrim_char(buf, first, last, CH_0)
        int  == atoi_checked(buf, <<>>, base, f0, last, 0)
        f    == int.p
        hf   == has_fraction(buf, f, last)
        rd0  == ScanReads(first, f0, last) \cup ScanReads(f0, f, last) \cup hf.reads
    IN  IF hf.has /\ int.truncated = 0
        THEN LET f1  == f + 1
                 f2  == IF int.value = <<>> THEN ltrim_char(buf, f1, last, CH_0) ELSE f1
                 tup == atoi_checked(buf, int.value, base, f2, last, 0)
             IN  [mantissa  |-> tup.value,
                  dot_shift |-> fraction_dot_shift(f1, f2, tup.p, tup.truncated),
                  p         |-> tup.p,
                  truncated |-> tup.truncated # 0,
                  reads     |-> rd0 \cup ScanReads(f1, f2, last)
                                    \cup ScanReads(f2, tup.p, last)]
        ELSE IF hf.has
        THEN LET f1 == f + 1
                 p  == skip_digits(buf, base, f1, last)
             IN  [mantissa  |-> int.value,
                  dot_shift |-> usize_to_i32(distance(f1, p)) - usize_to_i32(int.truncated),
                  p         |-> p,
                  truncated |-> TRUE,
                  reads     |-> rd0 \cup ScanReads(f1, p, last)]
        ELSE [mantissa  |-> int.value,
              dot_shift |-> -usize_to_i32(int.truncated),
              p         |-> f,
              truncated |-> int.truncated # 0,
              reads     |-> rd0]

\* The exponent marker of a radix ('e' is a digit from radix 15 on).
CH_E_LOWER == 101
CH_E_UPPER == 69
CH_CARET == 94

is_exponent_marker(base, c) ==
    IF base >= 15 THEN c = CH_CARET ELSE c \in {CH_E_LOWER, CH_E_UPPER}

\* The magnitude of the exponent digits, saturating at i32::MAX.
RECURSIVE exponent_digits(_,_,_,_,_)
exponent_digits(buf, base, p, last, value) ==
    IF p < last /\ char_to_digit(buf[p]) < base
    THEN LET d == char_to_digit(buf[p])
         IN  exponent_digits(buf, base, p + 1, last,
                 IF value > (I32_MAX - d) \div base THEN I32_MAX
                 ELSE value * base + d)
    ELSE [value |-> value, p |-> p]

\* exponent.rs parse_exponent: marker, optional sign, digits.  An exponent
\* that does not fit saturates to i32::MAX, or to -i32::MAX when negative.
parse_exponent(base, buf, p) ==
    LET last == Last(buf)
    IN  IF p < last /\ is_exponent_marker(base, buf[p])
        THEN LET neg == p + 1 < last /\ buf[p + 1] = CH_MINUS
                 pos == p + 1 < last /\ buf[p + 1] = CH_PLUS
                 d   == exponent_digits(buf, base,
                            IF neg \/ pos THEN p + 2 ELSE p + 1, last, 0)
             IN  [exponent |-> IF neg THEN -d.value ELSE d.value, p |-> d.p]
        ELSE [exponent |-> 0, p |-> p]

normalize_exponent(exponent, dot_shift) ==
    IF exponent = I32_MAX THEN [exponent |-> I32_MAX, ovf |-> FALSE]
    ELSE IF exponent = I32_MIN THEN [exponent |-> I32_MIN, ovf |-> FALSE]
    ELSE [exponent |-> WrappingSub(exponent, dot_shift),
          ovf      |-> SubOverflows(exponent, dot_shift)]

\* `while mantissa >= power && mantissa % power == 0`, adding step each time.
RECURSIVE reduce_loop(_,_,_,_,_)
reduce_loop(mantissa, power, exponent, step, ovf) ==
    IF BLe(BFromInt(power), mantissa) /\ BDivMod(mantissa, power).r = 0
    THEN reduce_loop(BDivMod(mantissa, power).q, power,
                     WrappingAdd(exponent, step), step,
                     ovf \/ AddOverflows(exponent, step))
    ELSE [mantissa |-> mantissa, exponent |-> exponent, ovf |-> ovf]

\* The loop over base2, from where the loop over base4 stopped.
reduce_again(l, power, step) == reduce_loop(l.mantissa, power, l.exponent, step, l.ovf)

\* `if mantissa % base == 0 { mantissa /= base; exponent += 1; }`
reduce_once(l, base) ==
    IF BDivMod(l.mantissa, base).r = 0
    THEN [mantissa |-> BDivMod(l.mantissa, base).q,
          exponent |-> WrappingAdd(l.exponent, 1),
          ovf      |-> l.ovf \/ AddOverflows(l.exponent, 1)]
    ELSE l

normalize_mantissa(mantissa, base, exponent) ==
    reduce_once(
        reduce_again(reduce_loop(mantissa, (base * base) * (base * base), exponent, 4, FALSE),
                     base * base, 2),
        base)

\* parse_float, with what its steps computed on the way: m, x, e and n are
\* what parse_mantissa, parse_exponent, normalize_exponent and
\* normalize_mantissa returned.
parse_float_result(m, x, e, n) ==
    [mantissa  |-> n.mantissa,
     exponent  |-> n.exponent,
     p         |-> x.p,
     truncated |-> m.truncated,
     ovf       |-> e.ovf \/ n.ovf,
     parsed    |-> m,
     literal   |-> x.exponent,
     combined  |-> e.exponent]

parse_float_normalize(base, m, x, e) ==
    parse_float_result(m, x, e, normalize_mantissa(m.mantissa, base, e.exponent))

parse_float_exponent(base, buf, m) ==
    parse_float_normalize(base, m, parse_exponent(base, buf, m.p),
        normalize_exponent(parse_exponent(base, buf, m.p).exponent, m.dot_shift))

parse_float(base, buf) == parse_float_exponent(base, buf, parse_mantissa(base, buf))

(***************************************************************************)
(* EXACT                                                                   *)
(***************************************************************************)
pow2_exponent(base) ==
    CASE base = 2  -> 1
      [] base = 4  -> 2
      [] base = 8  -> 3
      [] base = 16 -> 4
      [] base = 32 -> 5
      [] OTHER     -> 0

\* F::exponent_limit(base) (float.rs): the exponents e for which base^e is
\* exactly a float.  For a power of two, those that keep 2^(pow2_exp * e)
\* a float; for 10, those with 5^e below 2^(SIGNIFICAND_SIZE + 1); for any
\* other radix, those with base^e below 2^(SIGNIFICAND_SIZE + 1).  The
\* tables hold the limit for the radices 2 .. 36.
LIMIT_F32 == <<0, 15, 0, 10, 9, 8, 0, 7, 10, 6, 6, 6, 6, 6, 0, 5, 5, 5,
               5, 5, 5, 5, 5, 5, 5, 5, 4, 4, 4, 4, 0, 4, 4, 4, 4>>
LIMIT_F64 == <<0, 33, 0, 22, 20, 18, 0, 16, 22, 15, 14, 14, 13, 13, 0, 12,
               12, 12, 12, 12, 11, 11, 11, 11, 11, 11, 11, 10, 10, 10, 0,
               10, 10, 10, 10>>

exponent_limit(F, base) ==
    IF pow2_exponent(base) # 0
    THEN [min |-> -((-DENORMAL_EXPONENT(F)) \div pow2_exponent(base)),
          max |-> MAX_BINADE(F) \div pow2_exponent(base)]
    ELSE LET k == IF F = "f32" THEN LIMIT_F32[base - 1] ELSE LIMIT_F64[base - 1]
         IN  [min |-> -k, max |-> k]

\* `min_exp - (65 / pow2_exp)`: `/` is the truncating integer division.
underflow_exp(min_exp, pow2_exp) == min_exp - (65 \div pow2_exp)

\* The float, the exact flag, and which branch produced them.
pow2_to_exact(F, mantissa, base, pow2_exp, exponent) ==
    LET lim == exponent_limit(F, base)
    IN  IF exponent > lim.max
        THEN [float |-> INFINITY, valid |-> TRUE, zone |-> "infinity"]
        ELSE IF exponent < underflow_exp(lim.min, pow2_exp)
        THEN [float |-> ZERO, valid |-> TRUE, zone |-> "zero"]
        ELSE IF exponent < lim.min
        THEN LET remainder == exponent - lim.min
             IN  [float |-> pow2(F, pow2(F, AsFloat(F, mantissa), pow2_exp * remainder),
                                 pow2_exp * lim.min),
                  valid |-> TRUE, zone |-> "two-step"]
        ELSE [float |-> pow2(F, AsFloat(F, mantissa), pow2_exp * exponent),
              valid |-> TRUE, zone |-> "one-step"]

\* `mantissa >> F::SIGNIFICAND_SIZE != 0`
mantissa_too_wide_mutant(F, mantissa) == BShr(mantissa, SIGNIFICAND_SIZE(F) + 1) # <<>>

mantissa_too_wide(F, mantissa) == BShr(mantissa, SIGNIFICAND_SIZE(F)) # <<>>

\* The float, the exact flag, and whether float.pow was called.
to_exact(F, mantissa, base, exponent) ==
    LET lim == exponent_limit(F, base)
    IN  IF mantissa_too_wide(F, mantissa)
        THEN [float |-> ZERO, valid |-> FALSE, multiplied |-> FALSE]
        ELSE IF exponent = 0
        THEN [float |-> AsFloat(F, mantissa), valid |-> TRUE, multiplied |-> FALSE]
        ELSE IF exponent >= lim.min /\ exponent <= lim.max
        THEN [float |-> pow(F, AsFloat(F, mantissa), base, exponent),
              valid |-> TRUE, multiplied |-> TRUE]
        ELSE [float |-> ZERO, valid |-> FALSE, multiplied |-> FALSE]

(***************************************************************************)
(* EXTENDED                                                                *)
(*                                                                         *)
(* FloatType (float.rs) is the pair (frac: u64, exp: i32) standing for     *)
(* frac * 2^exp; cached.rs holds the power tables.  Neither is among the   *)
(* sources: they are modelled from the specification.                      *)
(***************************************************************************)
FloatType(frac, exp) == [frac |-> frac, exp |-> exp]

\* FloatType::normalize: shift left until the top bit is set; the shift.
normalize_shift(fp) == IF fp.frac = <<>> THEN 0 ELSE U64_BITS - BBitLen(fp.frac)
normalize(fp) == FloatType(BShl(fp.frac, normalize_shift(fp)), fp.exp - normalize_shift(fp))

\* FloatType::imul: the upper 64 bits of the 128-bit product, rounded up.
imul(a, b) ==
    IF a.frac = <<>> \/ b.frac = <<>>
    THEN FloatType(<<>>, a.exp + b.exp + U64_BITS)
    ELSE FloatType(BShr(BAdd(BMul(a.frac, b.frac), BPow2(U64_BITS - 1)), U64_BITS),
                   a.exp + b.exp + U64_BITS)

\* FloatType::as_native: the nearest float.
as_native(F, fp) ==
    IF fp.frac = <<>> THEN ZERO ELSE RoundNearestEven(F, fp.frac, fp.exp, FALSE)

\* (v + d) * 2^e, 0 <= d < 1, as the nearest normalized extended float.
ToExtended(v, e, sticky) ==
    LET n == BBitLen(v)
    IN  IF n <= U64_BITS THEN normalize(FloatType(v, e))
        ELSE LET sh   == n - U64_BITS
                 kept == BShr(v, sh)
                 c    == BCmp(BLow(v, sh), BPow2(sh - 1))
                 r    == IF c > 0 \/ (c = 0 /\ (sticky \/ BIsOdd(kept)))
                         THEN BAdd(kept, <<1>>) ELSE kept
             IN  IF BBitLen(r) > U64_BITS THEN FloatType(BShr(r, 1), e + sh + 1)
                 ELSE FloatType(r, e + sh)

\* base^n, n of either sign, as the nearest normalized extended float.
ExtendedPower(base, n) ==
    IF n >= 0 THEN ToExtended(BMulPow(<<1>>, base, n), 0, FALSE)
    ELSE LET k == (-n) * BitLenSmall(base) + U64_BITS + 2
             d == BDivPow(BPow2(k), base, -n, FALSE)
         IN  ToExtended(d.q, -k, d.sticky)

\* The table layout of each radix 2 .. 36: the large powers are
\* base^(step * i - bias) for i in 0 .. len - 1, the small ones base^i for
\* i in 0 .. step - 1; step is the largest n with base^n <= 10^10 and the
\* large powers span the floats.
POWERS_STEP == <<33, 20, 16, 14, 12, 11, 11, 10, 10, 9, 9, 8, 8, 8, 8, 8, 7,
                 7, 7, 7, 7, 7, 7, 7, 7, 6, 6, 6, 6, 6, 6, 6, 6, 6, 6>>
POWERS_BIAS == <<1155, 720, 576, 504, 444, 407, 385, 360, 350, 333, 324, 312,
                 304, 296, 288, 280, 273, 273, 266, 266, 259, 252, 252, 252,
                 245, 240, 240, 240, 234, 234, 228, 228, 228, 222, 222>>
POWERS_LARGE_LEN == <<67, 69, 68, 68, 71, 71, 67, 69, 66, 70, 68, 74, 72, 70,
                      68, 67, 75, 74, 72, 72, 70, 69, 68, 68, 67, 76, 76, 76,
                      74, 74, 73, 72, 72, 71, 71>>

get_powers(base) ==
    [step |-> POWERS_STEP[base - 1],
     bias |-> POWERS_BIAS[base - 1],
     large_len |-> POWERS_LARGE_LEN[base - 1]]

get_small_int(base, index) == BMulPow(<<1>>, base, index)
get_small(base, index) == ExtendedPower(base, index)
get_large(base, index) ==
    ExtendedPower(base, get_powers(base).step * index - get_powers(base).bias)

\* Errors: the error count is a u32, in units of 1/8 ulp.
ERROR_SCALE == 8
scale == ERROR_SCALE
halfscale == scale \div 2
U32_BITS == 32

trunction(is_truncated) == IF is_truncated THEN halfscale ELSE 0
Errors_new(is_truncated) == trunction(is_truncated)

\* count <<= shift on a u32: bits shifted out are lost, and the shift amount
\* is taken modulo 32 when it is not checked.
count_shl(count, shift) ==
    [count |-> BLow(BShl(BFromInt(count), shift % U32_BITS), U32_BITS),
     ovf   |-> shift >= U32_BITS]

\* `1u64 << n`: the shift amount is taken modulo 64 when it is not checked.
u64_shl_one(n) == [value |-> BPow2(n % U64_BITS), ovf |-> n >= U64_BITS]

\* An i64 is held as its 64-bit pattern.
i64_negative(x) == BBitLen(x) = U64_BITS
i64_lt(x, y) ==
    IF i64_negative(x) # i64_negative(y) THEN i64_negative(x) ELSE BLt(x, y)
i64_add(x, y) ==
    LET r == BLow(BAdd(x, y), U64_BITS)
    IN  [value |-> r,
         ovf   |-> i64_negative(x) = i64_negative(y) /\ i64_negative(r) # i64_negative(x)]
i64_sub(x, y) ==
    LET r == BLow(BSub(BAdd(x, BPow2(U64_BITS)), y), U64_BITS)
    IN  [value |-> r,
         ovf   |-> i64_negative(x) # i64_negative(y) /\ i64_negative(r) # i64_negative(x)]

\* Errors::is_accurate, with the values it computed on the way.
is_accurate(F, count, fp) ==
    LET bias         == -(EXPONENT_BIAS(F) - SIGNIFICAND_SIZE(F))
        denormal_exp == bias - 63
        extrabits    == IF fp.exp < denormal_exp
                        THEN 63 - SIGNIFICAND_SIZE(F) + 1 + denormal_exp - fp.exp
                        ELSE 63 - SIGNIFICAND_SIZE(F)
        h       == u64_shl_one(extrabits - 1)
        m       == u64_shl_one(extrabits)
        halfway == h.value
        extra   == BLow(fp.frac, BBitLen(m.value) - 1)
        errors  == count
        lo      == i64_sub(halfway, errors)
        hi      == i64_add(halfway, errors)
        cmp1    == i64_lt(lo.value, extra)
        cmp2    == i64_lt(extra, hi.value)
    IN  [accurate  |-> ~(cmp1 /\ cmp2),
         ovf       |-> h.ovf \/ m.ovf \/ lo.ovf \/ hi.ovf,
         extrabits |-> extrabits,
         halfway   |-> halfway,
         extra     |-> extra]

\* Rust's `/` and `%` on i32 truncate toward zero.
i32_div(a, b) == IF a >= 0 THEN a \div b ELSE -((-a) \div b)
i32_rem(a, b) == a - b * i32_div(a, b)

\* frac.overflowing_mul(small_int) on u64.
overflowing_mul(a, b) ==
    [value |-> BLow(BMul(a, b), U64_BITS), ovf |-> BBitLen(BMul(a, b)) > U64_BITS]

\* The in-range branch of multiply_exponent_extended, step by step: each
\* step takes the extended float and the error count of the step before.

\* Multiply by the small power: as an integer, or as an extended float.
\* start is the count of Errors::new, small_shift the shift of the
\* fp.normalize() of the arm taken.
multiply_small(fp, base, small_index, count, prod) ==
    IF prod.ovf
    THEN [fp |-> imul(normalize(fp), get_small(base, small_index)),
          count |-> count + halfscale, small_overflow |-> TRUE,
          start |-> count, small_shift |-> normalize_shift(fp)]
    ELSE [fp |-> normalize(FloatType(prod.value, fp.exp)),
          count |-> count, small_overflow |-> FALSE,
          start |-> count,
          small_shift |-> normalize_shift(FloatType(prod.value, fp.exp))]

\* Multiply by the large power.
multiply_large(base, large_index, s) ==
    [fp |-> imul(s.fp, get_large(base, large_index)),
     count |-> s.count + (IF s.count > 0 THEN 1 ELSE 0) + halfscale,
     small_overflow |-> s.small_overflow,
     start |-> s.start, small_shift |-> s.small_shift, small |-> s.count]

\* (fp, errors.is_accurate::<F>(&fp))
multiply_verdict(l, fp, errors, acc) ==
    [fp |-> fp, valid |-> acc.accurate, ovf |-> errors.ovf \/ acc.ovf,
     branch |-> "range", small_overflow |-> l.small_overflow,
     count |-> errors.count, shift |-> normalize_shift(l.fp),
     start |-> l.start, small_shift |-> l.small_shift, small |-> l.small,
     large |-> l.count, shl_ovf |-> errors.ovf, accuracy |-> acc]

multiply_accuracy(F, l, fp, errors) ==
    multiply_verdict(l, fp, errors, is_accurate(F, errors.count, fp))

\* Normalize the floating point (and the errors).
multiply_normalize(F, l) ==
    multiply_accuracy(F, l, normalize(l.fp), count_shl(l.count, normalize_shift(l.fp)))

multiply_in_range(F, fp, base, small_index, large_index, is_truncated) ==
    multiply_normalize(F,
        multiply_large(base, large_index,
            multiply_small(fp, base, small_index, Errors_new(is_truncated),
                overflowing_mul(fp.frac, get_small_int(base, small_index)))))

INFINITY_EXP == 2047

multiply_exponent_extended(F, fp, base, exp, is_truncated) ==
    LET powers      == get_powers(base)
        wraps       == AddOverflows(exp, powers.bias)
        biased      == WrappingAdd(exp, powers.bias)
        small_index == i32_rem(biased, powers.step)
        large_index == i32_div(biased, powers.step)
    IN  IF biased < 0
        THEN [fp |-> FloatType(<<>>, 0), valid |-> TRUE, ovf |-> wraps,
              branch |-> "zero", small_overflow |-> FALSE, count |-> <<>>, shift |-> 0]
        ELSE IF large_index >= powers.large_len
        THEN [fp |-> FloatType(BPow2(63), INFINITY_EXP), valid |-> TRUE, ovf |-> wraps,
              branch |-> "infinity", small_overflow |-> FALSE, count |-> <<>>, shift |-> 0]
        ELSE multiply_in_range(F, fp, base, small_index, large_index, is_truncated)

extended_result(F, r) ==
    [float |-> IF r.valid THEN as_native(F, r.fp) ELSE ZERO,
     valid |-> r.valid, ovf |-> r.ovf, branch |-> r.branch,
     fp |-> r.fp, count |-> r.count, call |-> r]

to_extended(F, mant, base, exp, is_truncated) ==
    extended_result(F,
        multiply_exponent_extended(F, FloatType(mant, 0), base, exp, is_truncated))

(***************************************************************************)
(* State.                                                                  *)
(***************************************************************************)
VARIABLES
    F,          \* the target float type of the call
    base,       \* the radix
    buf,        \* the bytes [first, last)
    pc,         \* where the call is
    mantissa,   \* u64
    dot_shift,  \* i32, as parse_mantissa returned it
    literal,    \* i32, as parse_exponent returned it
    exponent,   \* i32
    pos,        \* the buffer position returned
    truncated,  \* whether mantissa digits were dropped
    reads,      \* the positions parse_mantissa dereferenced
    ovf,        \* whether an integer operation of the call overflowed
    build,      \* "debug" (overflow panics), "release" (it wraps), "any"
    hist,       \* the conversion paths attempted, with what each returned
    result      \* the float returned

vars == <<F, base, buf, pc, mantissa, dot_shift, literal, exponent, pos,
          truncated, reads, ovf, build, hist, result>>

NONE == [k |-> "none"]

\* The values of the state a call has not computed yet.
Unset ==
    /\ dot_shift = 0
    /\ literal = 0
    /\ pos = first
    /\ truncated = FALSE
    /\ reads = {}
    /\ ovf = FALSE
    /\ build = "any"
    /\ hist = <<>>
    /\ result = NONE

Fresh == mantissa = <<>> /\ exponent = 0 /\ Unset

Rep(c, n) == [i \in 1 .. n |-> c]

\* The byte of the largest digit of a radix.
MaxDigitChar(b) == IF b <= 10 THEN CH_0 + b - 1 ELSE 97 + b - 11

\* The largest n with b^n < 2^64.
RECURSIVE CapacityRec(_,_,_)
CapacityRec(b, n, v) ==
    IF BBitLen(BMulAdd(v, b, 0)) > U64_BITS THEN n
    ELSE CapacityRec(b, n + 1, BMulAdd(v, b, 0))

Capacity(b) == CapacityRec(b, 0, <<1>>)

(***************************************************************************)
(* parse_mantissa on its own, over arbitrary buffers: a run of the largest *)
(* digit up to and beyond the capacity of a u64, then any bytes.           *)
(***************************************************************************)
MaxBufLen == 4
MaxOver == 2

ParseBases == {10, 16, 36}
Alphabet == {CH_0, CH_0 + 1, CH_DOT, 122}
Strings(n) == UNION {[1 .. k -> Alphabet] : k \in 0 .. n}
Prefixes(b) == {<<>>} \cup {Rep(MaxDigitChar(b), Capacity(b) + k) : k \in 0 .. MaxOver}

InitParse ==
    /\ F = "f64"
    /\ base \in ParseBases
    /\ buf \in {pre \o body : pre \in Prefixes(base), body \in Strings(MaxBufLen)}
    /\ pc = "start"
    /\ Fresh

ParseMantissa ==
    /\ pc = "start"
    /\ LET r == parse_mantissa(base, buf)
       IN  /\ mantissa' = r.mantissa
           /\ dot_shift' = r.dot_shift
           /\ pos' = r.p
           /\ truncated' = r.truncated
           /\ reads' = r.reads
    /\ pc' = "mantissa"
    /\ UNCHANGED <<F, base, buf, literal, exponent, ovf, build, hist, result>>

NextParse == ParseMantissa

SpecParse == InitParse /\ [][NextParse]_vars

(***************************************************************************)
(* Integer overflow: a build with overflow checks panics, one without      *)
(* wraps.  A call that has overflowed once is in one of the two builds.    *)
(***************************************************************************)
Builds(o) == IF ~o THEN {build} ELSE IF build = "any" THEN {"debug", "release"} ELSE {build}

U64_MAX == BSub(BPow2(U64_BITS), <<1>>)

(***************************************************************************)
(* normalize_mantissa on its own, applied to an input and then to its own  *)
(* output.                                                                 *)
(***************************************************************************)
MaxNormPow == 6

NormBases == 2 .. 36
NormMantissas(b) ==
    {<<>>, U64_MAX}
        \cup {BMulPow(<<k>>, b, n) : k \in {1, 3}, n \in 0 .. MaxNormPow}
NormExponents == {-1, 0, I32_MAX - 1}

InitNorm ==
    /\ F = "f64"
    /\ base \in NormBases
    /\ buf = <<>>
    /\ pc = "call"
    /\ Unset
    /\ mantissa \in NormMantissas(base)
    /\ exponent \in NormExponents

NormalizeReturns(r) ==
    \E b \in Builds(r.ovf) :
        /\ build' = b
        /\ ovf' = (ovf \/ r.ovf)
        /\ IF b = "debug"
           THEN /\ pc' = "panic"
                /\ UNCHANGED <<mantissa, exponent, hist>>
           ELSE /\ pc' = IF pc = "call" THEN "once" ELSE "twice"
                /\ mantissa' = r.mantissa
                /\ exponent' = r.exponent
                /\ hist' = Append(hist, [mantissa |-> r.mantissa,
                                         exponent |-> r.exponent])

\* (mantissa, exponent) = normalize_mantissa(mantissa, base, exponent)
Normalize ==
    /\ pc \in {"call", "once"}
    /\ NormalizeReturns(normalize_mantissa(mantissa, base, exponent))
    /\ UNCHANGED <<F, base, buf, dot_shift, literal, pos, truncated, reads, result>>

NextNorm == Normalize

SpecNorm == InitNorm /\ [][NextNorm]_vars

(***************************************************************************)
(* pow2_to_exact on its own, around the edges of its zones.                *)
(***************************************************************************)
Pow2Margin == 2

Pow2Bases == {2, 4, 8, 16, 32}
Pow2Mantissas == {<<1>>, <<3>>, BPow2(U64_BITS - 1), U64_MAX}
Pow2Exponents(f, b) ==
    LET lim == exponent_limit(f, b)
    IN  {0} \cup {e + d : e \in {lim.max, lim.min,
                                underflow_exp(lim.min, pow2_exponent(b))},
                          d \in -Pow2Margin .. Pow2Margin}

InitPow2 ==
    /\ F \in FloatTypes
    /\ base \in Pow2Bases
    /\ buf = <<>>
    /\ pc = "call"
    /\ Unset
    /\ mantissa \in Pow2Mantissas
    /\ exponent \in Pow2Exponents(F, base)

Returns(entry) ==
    /\ result' = entry.value
    /\ hist' = <<entry>>
    /\ pc' = "returned"

Pow2Entry(r) == [path |-> "pow2", value |-> r.float, valid |-> r.valid, zone |-> r.zone]

\* (float, valid) = pow2_to_exact::<F>(mantissa, base, pow2_exp, exponent)
Pow2ToExact ==
    /\ pc = "call"
    /\ Returns(Pow2Entry(pow2_to_exact(F, mantissa, base, pow2_exponent(base), exponent)))
    /\ UNCHANGED <<F, base, buf, mantissa, dot_shift, literal, exponent, pos,
                   truncated, reads, ovf, build>>

NextPow2 == Pow2ToExact

SpecPow2 == InitPow2 /\ [][NextPow2]_vars

(***************************************************************************)
(* to_exact on its own, around the widths and exponents it accepts.        *)
(***************************************************************************)
ExactMargin == 1

ExactBases == {b \in 2 .. 36 : pow2_exponent(b) = 0}
ExactMantissas(f) ==
    {<<>>, <<1>>, U64_MAX}
        \cup {BAdd(BSub(BPow2(SIGNIFICAND_SIZE(f)), <<ExactMargin>>), <<d>>) :
                  d \in 0 .. 2 * ExactMargin}
ExactExponents(f, b) ==
    LET lim == exponent_limit(f, b)
    IN  {e + d : e \in {lim.min, 0, lim.max}, d \in -ExactMargin .. ExactMargin}

InitExact ==
    /\ F \in FloatTypes
    /\ base \in ExactBases
    /\ buf = <<>>
    /\ pc = "call"
    /\ Unset
    /\ mantissa \in ExactMantissas(F)
    /\ exponent \in ExactExponents(F, base)

ExactEntry(r) ==
    [path |-> "exact", value |-> r.float, valid |-> r.valid, multiplied |-> r.multiplied]

\* (float, valid) = to_exact::<F>(mantissa, base, exponent)
ToExact ==
    /\ pc = "call"
    /\ Returns(ExactEntry(to_exact(F, mantissa, base, exponent)))
    /\ UNCHANGED <<F, base, buf, mantissa, dot_shift, literal, exponent, pos,
                   truncated, reads, ovf, build>>

NextExact == ToExact

SpecExact == InitExact /\ [][NextExact]_vars

(***************************************************************************)
(* to_extended on its own: exponents at the ends of the power table and of *)
(* the i32 range, around zero and around the least subnormal and the least *)
(* normal float; mantissas of one bit, of 64 bits, and those of the tests. *)
(***************************************************************************)
ExtMargin == 1

ExtBases == {10, 15, 36}

ExtMantissas ==
    {<<1>>, <<2>>, <<5>>, BFromInt(123456789), BPow2(63), U64_MAX,
     BMulPow(<<2>>, 10, 18),
     BMulAdd(BMulAdd(BFromInt(4746), 1000000, 67219), 1000000, 335938),
     BMulAdd(BMulAdd(BFromInt(568314), 1000000, 551459), 1000000, 398084)}

\* The exponents e with b^e next to the least subnormal and the least normal
\* float.
FloatEdgeExponents(f, b) ==
    IF b = 10 THEN (IF f = "f32" THEN {-45, -38} ELSE {-324, -308})
    ELSE IF b = 15 THEN (IF f = "f32" THEN {-38, -32} ELSE {-275, -262})
    ELSE (IF f = "f32" THEN {-29, -25} ELSE {-208, -198})

ExtExponents(f, b) ==
    LET p == get_powers(b)
    IN  {I32_MIN, -I32_MAX, I32_MAX, -9}
            \cup {e + d : e \in FloatEdgeExponents(f, b) \cup {0, p.step},
                          d \in -ExtMargin .. ExtMargin}
            \cup {e + d : e \in {-p.bias, p.step * p.large_len - p.bias},
                          d \in -ExtMargin .. ExtMargin - 1}
            \cup {I32_MAX - p.bias + d : d \in 1 - ExtMargin .. ExtMargin}

InitExtended ==
    /\ F \in FloatTypes
    /\ base \in ExtBases
    /\ buf = <<>>
    /\ pc = "call"
    /\ dot_shift = 0
    /\ literal = 0
    /\ pos = first
    /\ reads = {}
    /\ ovf = FALSE
    /\ build = "any"
    /\ hist = <<>>
    /\ result = NONE
    /\ mantissa \in ExtMantissas
    /\ exponent \in ExtExponents(F, base)
    /\ truncated \in BOOLEAN

ExtendedEntry(r) ==
    [path |-> "extended", value |-> r.float, valid |-> r.valid, call |-> r.call]

\* An overflowing integer operation panics in a build that checks for it.
ExtendedCallReturns(r) ==
    /\ ovf' = r.ovf
    /\ \E b \in Builds(r.ovf) :
           /\ build' = b
           /\ IF b = "debug"
              THEN pc' = "panic" /\ UNCHANGED <<hist, result>>
              ELSE Returns(ExtendedEntry(r))

\* (float, valid) = to_extended::<F>(mantissa, base, exponent, truncated)
ToExtendedCall ==
    /\ pc = "call"
    /\ ExtendedCallReturns(to_extended(F, mantissa, base, exponent, truncated))
    /\ UNCHANGED <<F, base, buf, mantissa, dot_shift, literal, exponent, pos,
                   truncated, reads>>

NextExtended == ToExtendedCall

SpecExtended == InitExtended /\ [][NextExtended]_vars

(***************************************************************************)
(* to_native: parse_float, then the conversion paths in turn.              *)
(*                                                                         *)
(* The numerals are well formed: digits, an optional fraction, an optional *)
(* exponent.  They are short numerals with small exponents, and numerals   *)
(* chosen for the mantissa, the exponent or the rounding they lead to.     *)
(***************************************************************************)
MaxIntLen == 2
MaxExp == 2

Bases == {10, 15, 16}

\* The byte of a digit, and the bytes of a sequence of digits.
DigitChar(d) == IF d < 10 THEN CH_0 + d ELSE 97 + d - 10
Digits(ds) == [i \in 1 .. Len(ds) |-> DigitChar(ds[i])]

\* An exponent: the marker of the radix, a sign, digits.
Marker(b) == IF b >= 15 THEN CH_CARET ELSE CH_E_LOWER
ExpPart(b, sign, ds) ==
    <<Marker(b)>> \o (IF sign < 0 THEN <<CH_MINUS>> ELSE <<>>) \o Digits(ds)

SmallInts(b) == UNION {[1 .. n -> {0, 1, b - 1}] : n \in 1 .. MaxIntLen}
SmallFracs(b) == {<<>>, <<CH_DOT>>, <<CH_DOT>> \o Digits(<<b \div 2>>),
                  <<CH_DOT>> \o Digits(<<0, 1>>)}
SmallExps(b) ==
    {<<>>} \cup {ExpPart(b, sg, <<k>>) : sg \in {-1, 1}, k \in 0 .. MaxExp}

\* Exponents beyond the exact path, beyond the tables, and beyond an i32.
LargeExps(b) ==
    {ExpPart(b, sg, ds) : sg \in {-1, 1},
                          ds \in {<<2, 3>>, <<4, 0, 0>>,
                                  <<1, 0, 0, 0, 0, 0, 0, 0, 0, 0, 0>>}}

\* 2^53 + 1 in radix 10; a numeral of radix 15 and one of radix 16 with
\* more digits than a u64 holds; a numeral whose integer part alone has.
LongInts(b) ==
    CASE b = 10 -> {<<9, 0, 0, 7, 1, 9, 9, 2, 5, 4, 7, 4, 0, 9, 9, 3>>,
                    <<1>> \o Rep(0, 20)}
      [] b = 15 -> {<<2, 6, 8, 10, 6>>}
      [] b = 16 -> {<<8>> \o Rep(0, 12) \o <<4, 0, 0, 1>>}
      [] OTHER  -> {}
LongFracs(b) ==
    CASE b = 10 -> {<<>>, <<CH_DOT>> \o Digits(<<5, 5>>)}
      [] b = 15 -> {<<CH_DOT>> \o Digits(<<1, 7, 7, 7, 7, 7, 7, 7, 8>>)}
      [] OTHER  -> {<<>>}

Numerals(b) ==
    {Digits(i) \o f \o e : i \in SmallInts(b), f \in SmallFracs(b), e \in SmallExps(b)}
        \cup {Digits(i) \o f \o e :
                  i \in {<<1>>, <<b - 1, 0>>}, f \in {<<>>, <<CH_DOT>> \o Digits(<<0, 1>>)},
                  e \in LargeExps(b)}
        \cup {Digits(i) \o f : i \in LongInts(b), f \in LongFracs(b)}
        \cup {Rep(MaxDigitChar(b), Capacity(b) + 1)}

Init ==
    /\ F \in FloatTypes
    /\ base \in Bases
    /\ buf \in Numerals(base)
    /\ pc = "start"
    /\ Fresh

ParseFloatReturns(r) ==
    /\ dot_shift' = r.parsed.dot_shift
    /\ literal' = r.literal
    /\ reads' = r.parsed.reads
    /\ ovf' = r.ovf
    /\ \E b \in Builds(r.ovf) :
           /\ build' = b
           /\ IF b = "debug"
              THEN /\ pc' = "panic"
                   /\ UNCHANGED <<mantissa, exponent, pos, truncated>>
              ELSE /\ pc' = "parsed"
                   /\ mantissa' = r.mantissa
                   /\ exponent' = r.exponent
                   /\ pos' = r.p
                   /\ truncated' = r.truncated

\* let (mantissa, exponent, p, truncated) = parse_float(base, first, last);
ParseFloat ==
    /\ pc = "start"
    /\ ParseFloatReturns(parse_float(base, buf))
    /\ UNCHANGED <<F, base, buf, hist, result>>

\* The branch the if-chain of to_native takes after parse_float.
first_path_mutant(mant, pow2_exp, is_truncated) ==
    IF mant = <<>> THEN "zero"
    ELSE IF pow2_exp # 0 THEN "pow2"
    ELSE "exact"

first_path(mant, pow2_exp, is_truncated) ==
    IF mant = <<>> THEN "zero"
    ELSE IF pow2_exp # 0 THEN "pow2"
    ELSE IF ~is_truncated THEN "exact"
    ELSE "extended"

\* An attempt: return its float if it is trusted, else go on to the
\* extended path.
Attempt(path, r) ==
    /\ hist' = Append(hist, [path |-> path, value |-> r.float, valid |-> r.valid])
    /\ IF r.valid THEN pc' = "done" /\ result' = r.float
       ELSE pc' = "moderate" /\ UNCHANGED result

\* if mantissa == 0 { return (F::ZERO, p); }
ReturnZero ==
    /\ pc = "parsed"
    /\ first_path(mantissa, pow2_exponent(base), truncated) = "zero"
    /\ hist' = Append(hist, [path |-> "zero", value |-> ZERO, valid |-> TRUE])
    /\ result' = ZERO
    /\ pc' = "done"
    /\ UNCHANGED <<F, base, buf, mantissa, dot_shift, literal, exponent, pos,
                   truncated, reads, ovf, build>>

\* else if pow2_exp != 0 { pow2_to_exact; if valid { return } }
TryPow2 ==
    /\ pc = "parsed"
    /\ first_path(mantissa, pow2_exponent(base), truncated) = "pow2"
    /\ Attempt("pow2", pow2_to_exact(F, mantissa, base, pow2_exponent(base), exponent))
    /\ UNCHANGED <<F, base, buf, mantissa, dot_shift, literal, exponent, pos,
                   truncated, reads, ovf, build>>

\* else if !truncated { to_exact; if valid { return } }
TryExact ==
    /\ pc = "parsed"
    /\ first_path(mantissa, pow2_exponent(base), truncated) = "exact"
    /\ Attempt("exact", to_exact(F, mantissa, base, exponent))
    /\ UNCHANGED <<F, base, buf, mantissa, dot_shift, literal, exponent, pos,
                   truncated, reads, ovf, build>>

\* A truncated mantissa in a radix that is not a power of two: no branch of
\* the if-chain is taken.
SkipExact ==
    /\ pc = "parsed"
    /\ first_path(mantissa, pow2_exponent(base), truncated) = "extended"
    /\ pc' = "moderate"
    /\ UNCHANGED <<F, base, buf, mantissa, dot_shift, literal, exponent, pos,
                   truncated, reads, ovf, build, hist, result>>

ExtendedReturns(r) ==
    /\ ovf' = (ovf \/ r.ovf)
    /\ \E b \in Builds(r.ovf) :
           /\ build' = b
           /\ IF b = "debug"
              THEN pc' = "panic" /\ UNCHANGED <<hist, result>>
              ELSE /\ hist' = Append(hist, [path |-> "extended", value |-> r.float,
                                            valid |-> r.valid])
                   /\ IF r.valid THEN pc' = "done" /\ result' = r.float
                      ELSE pc' = "slow" /\ UNCHANGED result

\* to_extended; if valid { return }
TryExtended ==
    /\ pc = "moderate"
    /\ ExtendedReturns(to_extended(F, mantissa, base, exponent, truncated))
    /\ UNCHANGED <<F, base, buf, mantissa, dot_shift, literal, exponent, pos,
                   truncated, reads>>

\* unreachable!()
Unreachable ==
    /\ pc = "slow"
    /\ hist' = Append(hist, [path |-> "fallback", value |-> NONE, valid |-> FALSE])
    /\ pc' = "unreachable"
    /\ UNCHANGED <<F, base, buf, mantissa, dot_shift, literal, exponent, pos,
                   truncated, reads, ovf, build, result>>

Next ==
    \/ ParseFloat
    \/ ReturnZero
    \/ TryPow2
    \/ TryExact
    \/ SkipExact
    \/ TryExtended
    \/ Unreachable

Spec == Init /\ [][Next]_vars

\* parse_float on its own, over the same numerals.
NextFloat == ParseFloat

SpecFloat == Init /\ [][NextFloat]_vars

(***************************************************************************)
(* The numeral in the buffer, read independently of the parser.            *)
(***************************************************************************)
\* The number of digits of the radix from position p on.
RECURSIVE DigitRun(_,_,_)
DigitRun(b, s, p) ==
    IF p <= Len(s) /\ char_to_digit(s[p]) < b THEN 1 + DigitRun(b, s, p + 1) ELSE 0

\* The n digits at p, following the digits that make up acc, as a number.
RECURSIVE DigitsValue(_,_,_,_,_)
DigitsValue(b, s, p, n, acc) ==
    IF n = 0 THEN acc
    ELSE BMulAdd(DigitsValue(b, s, p, n - 1, acc), b, char_to_digit(s[p + n - 1]))

FitsU64(v) == BBitLen(v) <= U64_BITS

IntLen == DigitRun(base, buf, first)
IntValue == DigitsValue(base, buf, first, IntLen, <<>>)
HasDot == IntLen + 1 <= Len(buf) /\ buf[IntLen + 1] = CH_DOT
FracLen == IF HasDot THEN DigitRun(base, buf, IntLen + 2) ELSE 0
AllValue == DigitsValue(base, buf, IntLen + 2, FracLen, IntValue)

\* How many of the first n integer digits a u64 holds.
RECURSIVE FoldedDigits(_)
FoldedDigits(n) ==
    IF n = 0 \/ FitsU64(DigitsValue(base, buf, first, n, <<>>)) THEN n
    ELSE FoldedDigits(n - 1)

\* The exponent of the numeral: where it starts, its sign, its digits.
ExpStart == IntLen + (IF HasDot THEN 1 + FracLen ELSE 0) + 1
HasExp == ExpStart <= Len(buf) /\ buf[ExpStart] = Marker(base)
ExpNegative == HasExp /\ ExpStart + 1 <= Len(buf) /\ buf[ExpStart + 1] = CH_MINUS
ExpDigitsStart == ExpStart + (IF ExpNegative THEN 2 ELSE 1)
ExpMagnitude ==
    IF HasExp
    THEN DigitsValue(base, buf, ExpDigitsStart, DigitRun(base, buf, ExpDigitsStart), <<>>)
    ELSE <<>>

FloorLog2(b) == BitLenSmall(b) - 1

\* (d.q + a fraction that d.sticky tells from 0) * 2^-s, rounded.
RoundQuotient(f, s, d) == RoundNearestEven(f, d.q, -s, d.sticky)

\* d * b^e, d > 0, rounded to nearest, ties to even.  A value of at least
\* 2^(MAX_BINADE + 1) is infinity and one below 2^(DENORMAL_EXPONENT - 1)
\* is zero, which b^e >= 2^(e * FloorLog2(b)) for e >= 0, and
\* d * b^e < 2^(BBitLen(d) + e * FloorLog2(b)) for e < 0, decide for the
\* exponents far from the range of the floats.
RoundScaled(f, d, b, e) ==
    IF e >= 0
    THEN IF e * FloorLog2(b) > MAX_BINADE(f) THEN INFINITY
         ELSE RoundNearestEven(f, BMulPow(d, b, e), 0, FALSE)
    ELSE IF BBitLen(d) + e * FloorLog2(b) < DENORMAL_EXPONENT(f) THEN ZERO
         ELSE RoundQuotient(f, -e * BitLenSmall(b) + SIGNIFICAND_SIZE(f) + 4,
                  BDivPow(BShl(d, -e * BitLenSmall(b) + SIGNIFICAND_SIZE(f) + 4),
                          b, -e, FALSE))

\* The value of the numeral in the buffer, rounded to nearest, ties to even.
TrueValue ==
    IF AllValue = <<>> THEN ZERO
    ELSE IF BBitLen(ExpMagnitude) > 20
    THEN (IF ExpNegative THEN ZERO ELSE INFINITY)
    ELSE RoundScaled(F, AllValue, base,
             (IF ExpNegative THEN -BToInt(ExpMagnitude) ELSE BToInt(ExpMagnitude))
                 - FracLen)

(***************************************************************************)
(* Claims about parse_mantissa (checked under SpecParse).                  *)
(***************************************************************************)
\* C3: whenever the integer part overflowed the 64-bit mantissa, truncated
\* is reported, dot_shift is never positive and equals minus the number of
\* integer digits not folded into the mantissa, whether or not a '.' and
\* fractional digits follow.
C3_DotShiftIsMinusUnfoldedIntegerDigits ==
    (pc = "mantissa" /\ ~FitsU64(IntValue)) =>
        /\ truncated
        /\ dot_shift <= 0
        /\ dot_shift = -(IntLen - FoldedDigits(IntLen))

\* C6: parse_mantissa dereferences only positions in [first, last) and
\* returns a position in [first, last].
C6_ReadsStayInBuffer ==
    pc = "mantissa" =>
        /\ reads \subseteq first .. (Last(buf) - 1)
        /\ first <= pos /\ pos <= Last(buf)

\* The integer part overflowed, a '.' follows it and the digit-skipping loop
\* ran up to last; or the digits end one byte before last, at a '.'.
C6_Witness ==
    /\ pc = "mantissa"
    /\ HasDot
    /\ \/ ~FitsU64(IntValue) /\ FracLen >= 1 /\ pos = Last(buf)
       \/ IntLen + 1 = Len(buf)

\* C7: for a numeral I.F whose digits all fit the u64, mantissa is the
\* value of the digits of I followed by those of F, dot_shift the number of
\* digits of F, the position just past the last digit of F, and truncated
\* is false.
IsIntDotFrac == IntLen >= 1 /\ HasDot /\ FracLen >= 1

C7_IntDotFracIsExact ==
    (pc = "mantissa" /\ IsIntDotFrac /\ FitsU64(AllValue)) =>
        /\ mantissa = AllValue
        /\ dot_shift = FracLen
        /\ pos = IntLen + 2 + FracLen
        /\ ~truncated

\* A zero integer part, leading fractional zeros, then a nonzero digit.
C7_Witness ==
    /\ pc = "mantissa"
    /\ IsIntDotFrac /\ FitsU64(AllValue)
    /\ IntValue = <<>>
    /\ buf[IntLen + 2] = CH_0
    /\ mantissa # <<>>

(***************************************************************************)
(* Claims about the pure functions.                                        *)
(***************************************************************************)
\* C5: normalize_mantissa is idempotent: applied to its own output it
\* returns the same (mantissa, exponent) pair as applied once, for every
\* mantissa (0 included), base and exponent.
C5_NormalizeMantissaIsIdempotent ==
    pc = "twice" => hist[2] = hist[1]

\* The zone of an exponent, for an underflow threshold th.
Pow2Zone(th) ==
    LET lim == exponent_limit(F, base)
    IN  IF exponent > lim.max THEN "infinity"
        ELSE IF exponent < th THEN "zero"
        ELSE IF exponent < lim.min THEN "two-step"
        ELSE "one-step"

\* What a zone returns.
Pow2Value(zone) ==
    LET lim == exponent_limit(F, base)
        p   == pow2_exponent(base)
        x   == AsFloat(F, mantissa)
    IN  CASE zone = "infinity" -> INFINITY
          [] zone = "zero"     -> ZERO
          [] zone = "two-step" -> pow2(F, pow2(F, x, p * (exponent - lim.min)), p * lim.min)
          [] OTHER             -> pow2(F, x, p * exponent)

CeilDiv(a, b) == (a + b - 1) \div b

\* C9: pow2_to_exact always reports exact, and the exponent falls in the
\* zones infinity (above max_exponent), zero (below min_exponent -
\* ceil(65 / pow2_exp)), two-step (from that threshold up to min_exponent)
\* or one-step, and the value returned is that of the zone.
C9_ZonesWithCeilThreshold ==
    pc = "returned" =>
        LET zone == Pow2Zone(exponent_limit(F, base).min
                                 - CeilDiv(65, pow2_exponent(base)))
        IN  /\ hist[1].valid
            /\ hist[1].zone = zone
            /\ result = Pow2Value(zone)

\* C10: to_exact reports exact exactly when the mantissa has at most
\* SIGNIFICAND_SIZE bits and the exponent is 0 or within the limits of the
\* radix; otherwise it returns (zero, false) and has not multiplied.
C10_ExactIffNarrowAndInRange ==
    pc = "returned" =>
        LET lim == exponent_limit(F, base)
            ok  == /\ BBitLen(mantissa) <= SIGNIFICAND_SIZE(F)
                   /\ exponent = 0 \/ (lim.min <= exponent /\ exponent <= lim.max)
        IN  /\ hist[1].valid <=> ok
            /\ ~ok => (result = ZERO /\ ~hist[1].multiplied)
            /\ ok => result = (IF exponent = 0 THEN AsFloat(F, mantissa)
                               ELSE pow(F, AsFloat(F, mantissa), base, exponent))

\* Each way of declining and each way of accepting happened: a mantissa of
\* exactly SIGNIFICAND_SIZE + 1 bits, an exponent one past the limit, and a
\* multiplication at the limit itself.
C10_Witness ==
    /\ pc = "returned"
    /\ \/ /\ BBitLen(mantissa) = SIGNIFICAND_SIZE(F) + 1
          /\ exponent = 0
          /\ ~hist[1].valid
       \/ /\ BBitLen(mantissa) = SIGNIFICAND_SIZE(F)
          /\ exponent = exponent_limit(F, base).max
          /\ hist[1].valid /\ hist[1].multiplied

(***************************************************************************)
(* Claims about to_native and parse_float.                                 *)
(***************************************************************************)
\* C1: the float to_native returns is the value of the numeral rounded to
\* nearest, ties to even, also when the numeral has more digits than the
\* 64-bit mantissa holds and when the radix is a power of two.
C1_ResultIsCorrectlyRounded ==
    pc = "done" => result = TrueValue

\* C2: to_native returns from the zero, an exact or the extended path: the
\* unreachable!() after the extended path is never reached.
C2_FallbackIsNeverReached ==
    pc \notin {"slow", "unreachable"}

\* C4: along parse_float no exponent addition or subtraction wraps around
\* the i32 range, and an overflow sentinel of the exponent parser stays that
\* sentinel through normalize_exponent and normalize_mantissa.
C4_ExponentNeverWraps ==
    pc # "start" =>
        /\ ~ovf
        /\ literal = I32_MAX => exponent = I32_MAX
        /\ literal = -I32_MAX => exponent = -I32_MAX

PathRank(path) ==
    CASE path = "zero"     -> 0
      [] path = "pow2"     -> 1
      [] path = "exact"    -> 2
      [] path = "extended" -> 3
      [] path = "fallback" -> 4

Attempted(path) == \E i \in 1 .. Len(hist) : hist[i].path = path

\* C8: a zero mantissa returns zero with no conversion attempted; otherwise
\* the paths are attempted in the order pow2 (radix a power of two only),
\* exact (mantissa not truncated only), extended, fallback, each at most
\* once, none after a trusted one, and the float returned is that of the
\* first trusted attempt.
C8_PathsInOrderEachOnce ==
    /\ \A i, j \in 1 .. Len(hist) :
           i < j => /\ PathRank(hist[i].path) < PathRank(hist[j].path)
                    /\ ~hist[i].valid
    /\ Attempted("zero") => Len(hist) = 1 /\ mantissa = <<>>
    /\ Attempted("pow2") => base \in {2, 4, 8, 16, 32}
    /\ Attempted("exact") => ~truncated /\ base \notin {2, 4, 8, 16, 32}
    /\ Attempted("fallback") => Attempted("extended")
    /\ pc \in {"moderate", "slow", "unreachable", "done"} =>
           /\ mantissa = <<>> => hist = <<[path |-> "zero", value |-> ZERO, valid |-> TRUE]>>
           /\ (mantissa # <<>> /\ base \in {2, 4, 8, 16, 32}) => hist[1].path = "pow2"
           /\ (mantissa # <<>> /\ base \notin {2, 4, 8, 16, 32} /\ ~truncated) =>
                  hist[1].path = "exact"
    /\ pc = "done" =>
           /\ hist # <<>>
           /\ hist[Len(hist)].valid
           /\ result = hist[Len(hist)].value

\* The exact path was attempted and declined, and the extended path after
\* it was trusted.
C8_Witness ==
    /\ pc = "done"
    /\ Len(hist) = 2
    /\ hist[1].path = "exact" /\ ~hist[1].valid
    /\ hist[2].path = "extended" /\ hist[2].valid

(***************************************************************************)
(* The extended path.                                                      *)
(***************************************************************************)
\* The record of the call that returned.
ExtendedCall == hist[1].call

InRange == pc = "returned" /\ ExtendedCall.branch = "range"

\* The count the four steps prescribe.  Where the small-power multiply
\* overflowed, no normalization follows it and nothing is shifted there.
StepsCount(is_truncated, small_overflow, small_shift, shift) ==
    LET c0 == IF is_truncated THEN 4 ELSE 0
        c1 == c0 + (IF small_overflow THEN 4 ELSE 0)
        c2 == BShl(BFromInt(c1), IF small_overflow THEN 0 ELSE small_shift)
        c3 == BAdd(c2, BFromInt((IF c2 # <<>> THEN 1 ELSE 0) + 4))
    IN  BShl(c3, shift)

\* C11: in the in-range branch the count handed to the ambiguity test is 4
\* if truncated else 0, plus 4 if the small-power multiply overflowed,
\* shifted left by the shift of the normalization after the small-power
\* multiply, plus 1 if non-zero, plus 4, shifted left by the shift of the
\* final normalization; and the count never decreases.
C11_CountFollowsTheFourSteps ==
    InRange =>
        /\ ExtendedCall.count
               = StepsCount(truncated, ExtendedCall.small_overflow,
                            ExtendedCall.small_shift, ExtendedCall.shift)
        /\ ExtendedCall.start <= ExtendedCall.small
        /\ ExtendedCall.small <= ExtendedCall.large
        /\ BLe(BFromInt(ExtendedCall.large), ExtendedCall.count)

\* The number of low-order bits of a normalized fraction that the target
\* significand cannot hold: those below the hidden bit's precision, and for
\* a subnormal result those below the least subnormal.
LostBits(f, fp) ==
    IF DENORMAL_EXPONENT(f) - fp.exp > 63 - SIGNIFICAND_SIZE(f)
    THEN DENORMAL_EXPONENT(f) - fp.exp
    ELSE 63 - SIGNIFICAND_SIZE(f)

\* (halfway - errors) < extra < (halfway + errors), in the integers.
Untrustworthy(f, fp, errors) ==
    LET halfway == BPow2(LostBits(f, fp) - 1)
        extra   == BLow(fp.frac, LostBits(f, fp))
    IN  /\ BLt(halfway, BAdd(extra, errors))
        /\ BLt(extra, BAdd(halfway, errors))

\* C12: a normalized extended float handed to is_accurate with an error
\* count is declared untrustworthy exactly when (halfway - errors) < extra <
\* (halfway + errors), with extrabits the number of fraction bits the target
\* cannot hold, halfway = 2^(extrabits - 1) and extra the low extrabits bits,
\* all as integers, however far below the normal range the exponent is.
C12_UntrustworthyIffNearHalfway ==
    InRange =>
        (ExtendedCall.valid
            <=> ~Untrustworthy(F, ExtendedCall.fp, ExtendedCall.count))

\* exponent + bias < 0, and (exponent + bias) / step at or beyond the
\* populated large powers, in the integers.
BelowTable == exponent < -get_powers(base).bias
BeyondTable ==
    exponent >= get_powers(base).step * get_powers(base).large_len
                    - get_powers(base).bias

\* C13: for every exponent of the i32 range, the sentinels included,
\* multiply_exponent_extended returns a trusted zero exactly when exponent +
\* bias is below zero and a trusted infinity exactly when that sum is not
\* negative and (exponent + bias) / step is at or beyond the number of large
\* powers; the maximum sentinel yields infinity, never zero.
C13_ZeroAndInfinityByTheMathematicalSum ==
    /\ (BelowTable \/ BeyondTable) => pc # "panic"
    /\ pc = "returned" =>
           /\ ExtendedCall.branch = "zero" <=> BelowTable
           /\ ExtendedCall.branch = "infinity" <=> BeyondTable
           /\ ExtendedCall.branch = "zero" => hist[1].valid /\ result = ZERO
           /\ ExtendedCall.branch = "infinity" => hist[1].valid /\ result = INFINITY

====
